---- MODULE Spec2Model ----
(***************************************************************************)
(* State-machine model of download_wp_media.py: the usage check, main,     *)
(* the media paginator (fetch_all_media_items), the posts paginator        *)
(* (fetch_all_posts), the image extractor (parse_images_from_posts) and    *)
(* the two download loops of main.                                         *)
(*                                                                         *)
(* A requests.get call is a step of its own (the request is in flight);    *)
(* the step that follows receives the outcome of the call (an exception    *)
(* or a response) and runs the whole branch of the loop body that handles  *)
(* it.  Strings are sequences of tokens: in a URL "/" is the slash         *)
(* character and every other token stands for a run of characters without  *)
(* a slash; in a timestamp a token is a run of digits or a run of other    *)
(* characters.  download_file acts on the files and folders below          *)
(* BASE_FOLDER.                                                            *)
(***************************************************************************)
EXTENDS Integers, Sequences, FiniteSets, TLC

\* ------------------------------------------------------------------
\* Bounds of the model
\* ------------------------------------------------------------------
MaxId == 2               \* media and post ids are drawn from 1..MaxId (and the absent id)
MaxBatch == 2            \* longest media page the server sends
MaxPostsPages == 2       \* the server sends at most this many non-empty posts pages

\* ------------------------------------------------------------------
\* Program constants
\* ------------------------------------------------------------------
INITIAL_PER_PAGE == 100
MIN_PER_PAGE == 1
POSTS_PER_PAGE == 20

\* item.get("id") of an item without an id is None; None is hashable and is
\* a member of all_seen_ids like any other id.
NoId == 0
\* a token of a timestamp: a run of w digits with the value n, or the w
\* characters c (no digit among them)
Num(n, w) == [n |-> n, w |-> w, c |-> ""]
Chr(c, w) == [n |-> 0, w |-> w, c |-> c]

\* item.get("date") of an item without the field: no string the server
\* sends is equal to it
None == <<Chr("None", 0)>>
\* ""
EmptyStr == <<>>
\* "unknown-date"
UNKNOWN_DATE == <<Chr("unknown", 7), Chr("-", 1), Chr("date", 4)>>

\* the text YYYY-MM-DD, fields zero-padded to the widths 4, 2, 2
IsoDate(y, m, d) == <<Num(y, 4), Chr("-", 1), Num(m, 2), Chr("-", 1), Num(d, 2)>>
\* the text hh:mm:ss
IsoTime(h, m, sec) == <<Num(h, 2), Chr(":", 1), Num(m, 2), Chr(":", 1), Num(sec, 2)>>
\* the text YYYY-MM-DDThh:mm:ss, as WordPress writes the date of an item
IsoDateTime(y, m, d, h, mi, sec) ==
    IsoDate(y, m, d) \o <<Chr("T", 1)>> \o IsoTime(h, mi, sec)

SITE_URL == <<"https:", "/", "/", "site.test">>

\* an absent or empty URL field (both are falsy)
NoUrl == <<>>
\* URLs as they occur in source_url fields and in the src of img tags
AbsoluteSrc == <<"https:", "/", "/", "cdn.test", "/", "x.png">>
SchemeRelativeSrc == <<"/", "/", "img.example", "/", "x.png">>
SiteRelativeSrc == <<"/", "media", "/", "x.png">>
PathRelativeSrc == <<"images", "/", "x.png">>

\* ------------------------------------------------------------------
\* Inputs: what the servers may send
\* ------------------------------------------------------------------
Ids == {NoId} \cup (1..MaxId)

\* (source_url, date) of the items the media endpoint serves: both fields
\* present, the date absent, the source_url absent
MediaShapes == <<<<AbsoluteSrc, IsoDateTime(2024, 1, 15, 10, 12, 30)>>,
                <<AbsoluteSrc, None>>,
                <<NoUrl, IsoDateTime(2024, 1, 15, 10, 12, 30)>>>>

\* an id names one item of the site: the server sends the same fields with
\* it every time
MediaItems == {[id |-> i,
                source_url |-> MediaShapes[(i % 3) + 1][1],
                date |-> MediaShapes[(i % 3) + 1][2]] : i \in Ids}

SeqsUpTo(S, n) == UNION {[1..k -> S] : k \in 0..n}

\* the body of a 200 response: a JSON list of objects ("list"), a list with
\* an entry that is not an object ("badlist"), a JSON value that is falsy
\* (null, {}, 0, ""), a non-empty JSON object (an error document), or bytes
\* that are not JSON at all
MediaBodies ==
    {[kind |-> "list", items |-> b] : b \in SeqsUpTo(MediaItems, MaxBatch)}
        \cup {[kind |-> k, items |-> <<>>] :
                 k \in {"falsy", "object", "notjson", "badlist"}}

\* (date, src values of the img tags of content.rendered) of the posts the
\* posts endpoint serves
PostShapes == <<<<IsoDateTime(2024, 1, 15, 10, 12, 30),
                 <<SchemeRelativeSrc, SiteRelativeSrc>> >>,
               <<None, <<AbsoluteSrc>> >>,
               <<IsoDateTime(2024, 2, 1, 8, 0, 0),
                 <<PathRelativeSrc, PathRelativeSrc>> >>>>

PostDicts == {[isdict |-> TRUE, id |-> i,
               date |-> PostShapes[(i % 3) + 1][1],
               content |-> PostShapes[(i % 3) + 1][2]] : i \in Ids}
\* an entry of all_posts that is not an object: a string or a number in the
\* list the server sent, or a key of the object it sent instead of a list
BadPost == [isdict |-> FALSE, id |-> NoId, date |-> None, content |-> <<>>]

\* the body of a 200 response of the posts endpoint, as data is used by
\* fetch_all_posts: a list (here of at most one entry), a falsy JSON value, a
\* non-empty JSON object, or bytes that are not JSON
PostsBodies ==
    {[kind |-> "list", items |-> b] :
        b \in {<<>>} \cup {<<p>> : p \in PostDicts \cup {BadPost}}}
        \cup {[kind |-> "falsy", items |-> <<>>],
               [kind |-> "object", items |-> <<BadPost>>],
               [kind |-> "notjson", items |-> <<>>]}

\* what one call of download_file ends with: the file written, the file
\* already there, a status other than 200, an exception inside the try
DownloadOutcomes == {"ok", "skip", "warn", "error"}

\* status codes other than 200 and 400 (a status is written as a string, as
\* the outcome of a call may also be "exception")
OtherStatuses == {"404", "500"}

VARIABLES
    argc,            \* len(sys.argv)
    pc,              \* position of the process; "crashed_*": an exception
                     \* that nothing catches has ended it with a traceback
    \* fetch_all_media_items
    all_items, all_seen_ids, page_num, per_page,
    r_status,        \* outcome of the last requests.get of the media loop (kept
                     \* after the loop as the record of how it ended, until
                     \* main has the posts parsed)
    page_kind,       \* what the last 200 body was, see PageKind
    bad_requests,    \* responses with status 400 this call has received
    recv_order,      \* the ids of the 200 bodies received, each once, in the
                     \* order of their first occurrence
    \* fetch_all_posts
    all_posts, posts_page_num, posts_per_page,
    resp_status,     \* outcome of the last requests.get of the posts loop (kept
                     \* after the loop as the record of how it ended, until
                     \* main has the posts parsed)
    \* main
    media_items, post_images,
    files,           \* the files below BASE_FOLDER: folder, name and content
    folders,         \* the date folders below BASE_FOLDER
    idx,             \* position of the download loop in its list
    sink_calls,      \* the arguments of the calls of download_file so far
    dl_outcome,      \* how the last call of download_file ended
    media_calls,     \* calls of fetch_all_media_items so far
    posts_calls      \* calls of fetch_all_posts so far

vars == <<argc, pc, all_items, all_seen_ids, page_num, per_page, r_status,
          page_kind, bad_requests, recv_order,
          all_posts, posts_page_num, posts_per_page, resp_status,
          media_items, post_images, files, folders, idx, sink_calls,
          dl_outcome, media_calls, posts_calls>>

mediaLocals == <<all_items, all_seen_ids, page_num, per_page, r_status, page_kind,
                 bad_requests, recv_order>>
postsLocals == <<all_posts, posts_page_num, posts_per_page, resp_status>>
mainLocals == <<media_items, post_images, files, folders, idx, sink_calls,
                dl_outcome>>
calls == <<media_calls, posts_calls>>

Max(a, b) == IF a >= b THEN a ELSE b

\* Shrink with the halving forgotten: the retry repeats the same request
ShrinkStuck(p) == p

\* Shrink by a decrement instead of a halving
ShrinkByOne(p) == Max(MIN_PER_PAGE, p - 1)

\* per_page = max(MIN_PER_PAGE, per_page // 2)
Shrink(p) == Max(MIN_PER_PAGE, p \div 2)

\* ScanPage without the test against all_seen_ids
ScanPageNoDedup(data, items, seen, new) ==
    [items |-> items \o data,
     seen |-> seen \cup {data[i].id : i \in 1..Len(data)},
     new |-> [i \in 1..Len(data) |-> data[i].id]]

\* ScanPage that leaves the page at the first id it has seen before
RECURSIVE ScanPageStopAtSeen(_, _, _, _)
ScanPageStopAtSeen(data, items, seen, new) ==
    IF data = <<>> \/ Head(data).id \in seen
    THEN [items |-> items, seen |-> seen, new |-> new]
    ELSE ScanPageStopAtSeen(Tail(data), Append(items, Head(data)),
                            seen \cup {Head(data).id}, Append(new, Head(data).id))

\* the for loop over data: an item whose id is not in all_seen_ids is
\* appended to all_items, its id added to all_seen_ids and new_page_ids
RECURSIVE ScanPage(_, _, _, _)
ScanPage(data, items, seen, new) ==
    IF data = <<>> THEN [items |-> items, seen |-> seen, new |-> new]
    ELSE LET item == Head(data)
             media_id == item.id
         IN  IF media_id \notin seen
             THEN ScanPage(Tail(data), Append(items, item),
                           seen \cup {media_id}, Append(new, media_id))
             ELSE ScanPage(Tail(data), items, seen, new)

\* StopEarly with the stagnation test left out
StopNever(new) == FALSE

\* if not new_page_ids: break
StopEarly(new) == new = <<>>

\* TakeFallback that does not look at the list
TakeFallbackAlways(items) == TRUE

\* if not media_items: fall back to the posts
TakeFallback(items) == items = <<>>

\* the 200 bodies that raise out of the loop: r.json() raises on bytes that
\* are not JSON; iterating a JSON object yields its keys, and an entry of a
\* list may be no object: item.get raises AttributeError on those
Raises(body) == body.kind \in {"notjson", "object", "badlist"}

\* data, as the server sent it, against the ids seen before it arrived:
\* "empty" (nothing in it), "stale" (items, every id seen before), "fresh"
\* (items, no id seen before), "mixed" (ids seen before and ids not seen
\* before)
PageKind(body, seen) ==
    IF body.items = <<>> THEN "empty"
    ELSE IF \A i \in 1..Len(body.items) : body.items[i].id \in seen THEN "stale"
    ELSE IF \A i \in 1..Len(body.items) : body.items[i].id \notin seen THEN "fresh"
    ELSE "mixed"

\* the ids of data that are not in the sequence before, each once, in the
\* order in which data has them first
FirstOccurrences(data, before) ==
    LET old == {before[i] : i \in 1..Len(before)}
        firsts == {i \in 1..Len(data) :
                     /\ data[i].id \notin old
                     /\ \A j \in 1..(i - 1) : data[j].id # data[i].id}
        nth(k) == CHOOSE i \in firsts : Cardinality({j \in firsts : j <= i}) = k
    IN  [k \in 1..Cardinality(firsts) |-> data[nth(k)].id]

Init ==
    /\ argc \in {1, 2}
    /\ pc = "usage"
    /\ all_items = <<>>
    /\ all_seen_ids = {}
    /\ page_num = 0
    /\ per_page = 0
    /\ r_status = "none"
    /\ page_kind = "none"
    /\ all_posts = <<>>
    /\ posts_page_num = 0
    /\ posts_per_page = 0
    /\ resp_status = "none"
    /\ bad_requests = 0
    /\ recv_order = <<>>
    /\ media_items = <<>>
    /\ post_images = <<>>
    /\ files = {}
    /\ folders = {}
    /\ idx = 0
    /\ sink_calls = <<>>
    /\ dl_outcome = "none"
    /\ media_calls = 0
    /\ posts_calls = 0

\* if len(sys.argv) < 2: print usage; sys.exit(1)
UsageCheck ==
    /\ pc = "usage"
    /\ pc' = IF argc < 2 THEN "exit1" ELSE "main"
    /\ UNCHANGED <<argc, mediaLocals, postsLocals, mainLocals, calls>>

\* main up to the call of fetch_all_media_items, and the function's
\* initialisation of its locals
MainStart ==
    /\ pc = "main"
    /\ pc' = "media"
    /\ media_calls' = media_calls + 1
    /\ all_items' = <<>>
    /\ all_seen_ids' = {}
    /\ page_num' = 1
    /\ per_page' = INITIAL_PER_PAGE
    /\ bad_requests' = 0
    /\ recv_order' = <<>>
    /\ UNCHANGED <<argc, r_status, page_kind, postsLocals, mainLocals, posts_calls>>

\* requests.get(MEDIA_API, params={"page": page_num, "per_page": per_page})
MediaRequest ==
    /\ pc = "media"
    /\ pc' = "media_wait"
    /\ UNCHANGED <<argc, mediaLocals, postsLocals, mainLocals, calls>>

\* MediaException without the try: the exception leaves the function
MediaExceptionRaises ==
    /\ pc = "media_wait"
    /\ r_status' = "exception"
    /\ pc' = "crashed_media"
    /\ UNCHANGED <<argc, all_items, all_seen_ids, page_num, per_page, page_kind,
                   bad_requests, recv_order, postsLocals, mainLocals, calls>>

\* MediaException with continue for break: the request is made again
MediaExceptionRetry ==
    /\ pc = "media_wait"
    /\ r_status' = "exception"
    /\ pc' = "media"
    /\ UNCHANGED <<argc, all_items, all_seen_ids, page_num, per_page, page_kind,
                   bad_requests, recv_order, postsLocals, mainLocals, calls>>

\* the call raises: log, break
MediaException ==
    /\ pc = "media_wait"
    /\ r_status' = "exception"
    /\ pc' = "media_done"
    /\ UNCHANGED <<argc, all_items, all_seen_ids, page_num, per_page, page_kind,
                   bad_requests, recv_order, postsLocals, mainLocals, calls>>

\* Media400 that moves on to the next page when it shrinks per_page
Media400Advance ==
    /\ pc = "media_wait"
    /\ r_status' = "400"
    /\ bad_requests' = bad_requests + 1
    /\ IF per_page > MIN_PER_PAGE
       THEN /\ per_page' = Shrink(per_page)
            /\ page_num' = page_num + 1
            /\ pc' = "media"
       ELSE /\ per_page' = per_page
            /\ page_num' = page_num
            /\ pc' = "media_done"
    /\ UNCHANGED <<argc, all_items, all_seen_ids, page_kind, recv_order,
                   postsLocals, mainLocals, calls>>

\* Media400 without the floor: at MIN_PER_PAGE the request is made again
Media400NoFloor ==
    /\ pc = "media_wait"
    /\ r_status' = "400"
    /\ bad_requests' = bad_requests + 1
    /\ per_page' = Shrink(per_page)
    /\ pc' = "media"
    /\ UNCHANGED <<argc, all_items, all_seen_ids, page_num, page_kind, recv_order,
                   postsLocals, mainLocals, calls>>

\* r.status_code == 400
Media400 ==
    /\ pc = "media_wait"
    /\ r_status' = "400"
    /\ bad_requests' = bad_requests + 1
    /\ IF per_page > MIN_PER_PAGE
       THEN /\ per_page' = Shrink(per_page)
            /\ pc' = "media"
       ELSE /\ per_page' = per_page
            /\ pc' = "media_done"
    /\ UNCHANGED <<argc, all_items, all_seen_ids, page_num, page_kind, recv_order,
                   postsLocals, mainLocals, calls>>

\* r.status_code == 200
Media200 ==
    /\ pc = "media_wait"
    /\ r_status' = "200"
    /\ \E body \in MediaBodies :
         IF Raises(body)
         THEN \* the exception leaves fetch_all_media_items and main
              /\ pc' = "crashed_media"
              /\ UNCHANGED <<all_items, all_seen_ids, page_num, page_kind, recv_order>>
         ELSE /\ page_kind' = PageKind(body, all_seen_ids)
              /\ recv_order' = recv_order \o FirstOccurrences(body.items, recv_order)
              /\ IF body.items = <<>>
                 THEN \* if not data: break
                      /\ pc' = "media_done"
                      /\ UNCHANGED <<all_items, all_seen_ids, page_num>>
                 ELSE LET s == ScanPage(body.items, all_items, all_seen_ids, <<>>)
                      IN  /\ all_items' = s.items
                          /\ all_seen_ids' = s.seen
                          /\ IF StopEarly(s.new)
                             THEN pc' = "media_done" /\ page_num' = page_num
                             ELSE pc' = "media" /\ page_num' = page_num + 1
    /\ UNCHANGED <<argc, per_page, bad_requests, postsLocals, mainLocals, calls>>

\* any other status: log, break
MediaOther ==
    /\ pc = "media_wait"
    /\ \E s \in OtherStatuses : r_status' = s
    /\ pc' = "media_done"
    /\ UNCHANGED <<argc, all_items, all_seen_ids, page_num, per_page, page_kind,
                   bad_requests, recv_order, postsLocals, mainLocals, calls>>

\* ------------------------------------------------------------------
\* get_date_subfolder
\* ------------------------------------------------------------------
\* date_str.replace("Z", ""): every Z goes, wherever it stands
RemoveZ(date_str) == SelectSeq(date_str, LAMBDA t : t # Chr("Z", 1))

IsNum(t, w) == t.c = "" /\ t.w = w

IsLeap(y) == (y % 4 = 0 /\ y % 100 # 0) \/ y % 400 = 0

DaysIn(y, m) ==
    IF m = 2 THEN (IF IsLeap(y) THEN 29 ELSE 28)
    ELSE IF m \in {4, 6, 9, 11} THEN 30 ELSE 31

\* the first ten characters are YYYY-MM-DD and name a day of the calendar
ParsesDate(s) ==
    /\ Len(s) >= 5
    /\ IsNum(s[1], 4) /\ s[2] = Chr("-", 1)
    /\ IsNum(s[3], 2) /\ s[4] = Chr("-", 1)
    /\ IsNum(s[5], 2)
    /\ s[1].n \in 1..9999
    /\ s[3].n \in 1..12
    /\ s[5].n \in 1..DaysIn(s[1].n, s[3].n)

\* hh, hh:mm or hh:mm:ss
ParsesClock(t) ==
    /\ Len(t) \in {1, 3, 5}
    /\ \A i \in 1..Len(t) :
          IF i % 2 = 1 THEN IsNum(t[i], 2) ELSE t[i] = Chr(":", 1)
    /\ t[1].n \in 0..23
    /\ \A i \in {3, 5} : i <= Len(t) => t[i].n \in 0..59

\* nothing, or a UTC offset +hh:mm / -hh:mm
ParsesOffset(o) ==
    \/ o = <<>>
    \/ /\ Len(o) = 4
       /\ o[1] \in {Chr("+", 1), Chr("-", 1)}
       /\ IsNum(o[2], 2) /\ o[3] = Chr(":", 1) /\ IsNum(o[4], 2)
       /\ o[2].n \in 0..23 /\ o[4].n \in 0..59

\* datetime.fromisoformat(s) returns (no ValueError): a date, or a date, one
\* separator character and a time with an optional offset.  Fractions of a
\* second are not among the inputs of the model.
FromIsoFormatOk(s) ==
    /\ ParsesDate(s)
    /\ \/ Len(s) = 5
       \/ /\ Len(s) >= 7
          /\ s[6].c # "" /\ s[6].w = 1
          /\ \E k \in {1, 3, 5} :
                /\ 6 + k <= Len(s)
                /\ ParsesClock(SubSeq(s, 7, 6 + k))
                /\ ParsesOffset(SubSeq(s, 7 + k, Len(s)))

\* get_date_subfolder(date_str), date_str a string: strftime("%Y-%m-%d") of
\* the parsed value, "unknown-date" on ValueError
get_date_subfolder(date_str) ==
    LET s == RemoveZ(date_str)
    IN  IF FromIsoFormatOk(s)
        THEN IsoDate(s[1].n, s[3].n, s[5].n)
        ELSE UNKNOWN_DATE

\* ------------------------------------------------------------------
\* download_file
\* ------------------------------------------------------------------
Schemes == {"http:", "https:"}

\* urlparse(url).path: what follows scheme and host
UrlPath(url) ==
    IF Len(url) >= 3 /\ url[1] \in Schemes /\ url[2] = "/" /\ url[3] = "/"
    THEN (IF Len(url) >= 4 /\ url[4] # "/" THEN SubSeq(url, 5, Len(url))
          ELSE SubSeq(url, 4, Len(url)))
    ELSE IF Len(url) >= 2 /\ url[1] = "/" /\ url[2] = "/"
    THEN (IF Len(url) >= 3 /\ url[3] # "/" THEN SubSeq(url, 4, Len(url))
          ELSE SubSeq(url, 3, Len(url)))
    ELSE url

\* os.path.basename(path): what follows the last slash, as a string of
\* tokens (empty when the path is empty or ends with a slash)
Basename(path) ==
    IF path = <<>> \/ path[Len(path)] = "/" THEN <<>> ELSE <<path[Len(path)]>>

\* the characters of a token as runs of word characters and "_" for each
\* run of other characters, as re.sub(r"\W+", "_", token) leaves them
WordRuns(tok) ==
    CASE tok = "/" -> <<"_">>
      [] tok = "https:" -> <<"https", "_">>
      [] tok = "http:" -> <<"http", "_">>
      [] tok = "cdn.test" -> <<"cdn", "_", "test">>
      [] tok = "site.test" -> <<"site", "_", "test">>
      [] tok = "img.example" -> <<"img", "_", "example">>
      [] tok = "x.png" -> <<"x", "_", "png">>
      [] tok = "a:b.png" -> <<"a", "_", "b", "_", "png">>
      [] OTHER -> <<tok>>

\* re.sub(r"\W+", "_", url): one "_" for a run that spans several tokens
RECURSIVE SubNonWord(_, _)
SubNonWord(url, out) ==
    IF url = <<>> THEN out
    ELSE LET runs == WordRuns(Head(url))
             joined == IF out # <<>> /\ out[Len(out)] = "_" /\ Head(runs) = "_"
                       THEN out \o Tail(runs) ELSE out \o runs
         IN  SubNonWord(Tail(url), joined)

\* clean_filename: each of \ / * ? : " < > | becomes "_"
CleanToken(tok) == IF tok = "a:b.png" THEN "a_b.png" ELSE tok
clean_filename(filename) == [i \in 1..Len(filename) |-> CleanToken(filename[i])]

\* the name download_file stores a URL under
FileNameOf(url) ==
    LET base == Basename(UrlPath(url))
        filename == IF base = <<>> THEN SubNonWord(url, <<>>) ELSE base
    IN  clean_filename(filename)

\* os.path.exists(filepath)
Exists(fs, folder, name) == \E f \in fs : f.folder = folder /\ f.name = name

\* a file that an earlier run has left
OldFile(folder, name) == [folder |-> folder, name |-> name, content |-> "old"]

\* what the download loop may find below BASE_FOLDER when it starts (nothing
\* before the loop reads or writes there): no file, or x.png of 2024-01-15
FilesAtStart == {{}, {OldFile(IsoDate(2024, 1, 15), <<"x.png">>)}}

\* what a call of download_file meets: requests.get raises ("exception"),
\* the response has a status other than 200 ("status"), the response is a
\* 200 whose body arrives whole ("200"), or a 200 whose stream breaks after
\* the file was opened for writing ("200_cut")
DownloadEvents == {"exception", "status", "200", "200_cut"}

\* download_file with the exists test left out: the file is written again
DownloadFileOverwrite(fs, dirs, url, date_str, ev) ==
    LET subfolder == get_date_subfolder(date_str)
        name == FileNameOf(url)
        others == {f \in fs : ~(f.folder = subfolder /\ f.name = name)}
        file(c) == [folder |-> subfolder, name |-> name, content |-> c]
    IN  IF ev = "exception"
        THEN [files |-> fs, folders |-> dirs \cup {subfolder}, outcome |-> "error",
              raised |-> FALSE]
        ELSE IF ev = "status"
        THEN [files |-> fs, folders |-> dirs \cup {subfolder}, outcome |-> "warn",
              raised |-> FALSE]
        ELSE IF ev = "200"
        THEN [files |-> others \cup {file("new")}, folders |-> dirs \cup {subfolder},
              outcome |-> "ok", raised |-> FALSE]
        ELSE [files |-> others \cup {file("partial")}, folders |-> dirs \cup {subfolder},
              outcome |-> "error", raised |-> FALSE]

\* download_file without its except clause: a failure leaves the function
DownloadFileNoCatch(fs, dirs, url, date_str, ev) ==
    LET subfolder == get_date_subfolder(date_str)
        name == FileNameOf(url)
        file(c) == [folder |-> subfolder, name |-> name, content |-> c]
    IN  IF ev = "exception"
        THEN [files |-> fs, folders |-> dirs \cup {subfolder}, outcome |-> "error",
              raised |-> TRUE]
        ELSE IF ev = "status"
        THEN [files |-> fs, folders |-> dirs \cup {subfolder}, outcome |-> "warn",
              raised |-> FALSE]
        ELSE IF Exists(fs, subfolder, name)
        THEN [files |-> fs, folders |-> dirs \cup {subfolder}, outcome |-> "skip",
              raised |-> FALSE]
        ELSE IF ev = "200"
        THEN [files |-> fs \cup {file("new")}, folders |-> dirs \cup {subfolder},
              outcome |-> "ok", raised |-> FALSE]
        ELSE [files |-> fs \cup {file("partial")}, folders |-> dirs \cup {subfolder},
              outcome |-> "error", raised |-> TRUE]

\* download_file(url, date_str) on the files fs and folders dirs below
\* BASE_FOLDER: the folder of the date is made first; inside the try, a
\* response other than 200 and an exception are logged, a 200 is written to
\* subfolder/filename unless a file is there already.  raised: an exception
\* leaves the function (the except clause catches every Exception).
DownloadFile(fs, dirs, url, date_str, ev) ==
    LET subfolder == get_date_subfolder(date_str)
        name == FileNameOf(url)
        file(c) == [folder |-> subfolder, name |-> name, content |-> c]
    IN  IF ev = "exception"
        THEN [files |-> fs, folders |-> dirs \cup {subfolder}, outcome |-> "error",
              raised |-> FALSE]
        ELSE IF ev = "status"
        THEN [files |-> fs, folders |-> dirs \cup {subfolder}, outcome |-> "warn",
              raised |-> FALSE]
        ELSE IF Exists(fs, subfolder, name)
        THEN [files |-> fs, folders |-> dirs \cup {subfolder}, outcome |-> "skip",
              raised |-> FALSE]
        ELSE IF ev = "200"
        THEN [files |-> fs \cup {file("new")}, folders |-> dirs \cup {subfolder},
              outcome |-> "ok", raised |-> FALSE]
        ELSE [files |-> fs \cup {file("partial")}, folders |-> dirs \cup {subfolder},
              outcome |-> "error", raised |-> FALSE]

\* Or without the default: the field is passed on as it is
OrNoDefault(x, default) == x

\* X or default
Or(x, default) == IF x = None \/ x = EmptyStr THEN default ELSE x

\* img_url.startswith(prefix)
StartsWith(url, prefix) ==
    /\ Len(url) >= Len(prefix)
    /\ SubSeq(url, 1, Len(prefix)) = prefix

\* urljoin(SITE_URL, img_url) for an img_url that starts with one slash:
\* scheme and host of SITE_URL, then the path
UrlJoin(base, path) == SubSeq(base, 1, 4) \o path

\* NormalizeSrc with the two tests in the other order
NormalizeSrcSlashFirst(img_url) ==
    IF StartsWith(img_url, <<"/">>) THEN UrlJoin(SITE_URL, img_url)
    ELSE IF StartsWith(img_url, <<"/", "/">>) THEN <<"https:">> \o img_url
    ELSE img_url

\* the three-way rule of parse_images_from_posts
NormalizeSrc(img_url) ==
    IF StartsWith(img_url, <<"/", "/">>) THEN <<"https:">> \o img_url
    ELSE IF StartsWith(img_url, <<"/">>) THEN UrlJoin(SITE_URL, img_url)
    ELSE img_url

\* ImagesOfPost that passes over a src the post has had before
ImagesOfPostDedup(srcs, date_str) ==
    LET firsts == {i \in 1..Len(srcs) : \A j \in 1..(i - 1) : srcs[j] # srcs[i]}
        nth(k) == CHOOSE i \in firsts : Cardinality({j \in firsts : j <= i}) = k
    IN  [k \in 1..Cardinality(firsts) |->
            [url |-> NormalizeSrc(srcs[nth(k)]), date |-> date_str]]

\* the inner loop: one (img_url, date_str) pair for every img tag of a post
RECURSIVE ImagesOfPost(_, _)
ImagesOfPost(srcs, date_str) ==
    IF srcs = <<>> THEN <<>>
    ELSE <<[url |-> NormalizeSrc(Head(srcs)), date |-> date_str]>>
             \o ImagesOfPost(Tail(srcs), date_str)

\* parse_images_from_posts(posts), for posts that are all objects
RECURSIVE ParseImages(_)
ParseImages(ps) ==
    IF ps = <<>> THEN <<>>
    ELSE LET post == Head(ps)
             date_str == Or(post.date, UNKNOWN_DATE)
         IN  ImagesOfPost(post.content, date_str) \o ParseImages(Tail(ps))

\* post.get raises AttributeError on an entry that is not an object
ParseRaises(ps) == \E i \in 1..Len(ps) : ~ps[i].isdict

\* fetch_all_media_items returns all_items; main takes the fallback when the
\* list is empty and starts the download loop over it otherwise
MainBranch ==
    /\ pc = "media_done"
    /\ media_items' = all_items
    /\ all_items' = <<>>
    /\ all_seen_ids' = {}
    /\ page_num' = 0
    /\ per_page' = 0
    /\ page_kind' = "none"
    /\ bad_requests' = 0
    /\ recv_order' = <<>>
    /\ IF TakeFallback(all_items)
       THEN /\ pc' = "posts"
            /\ posts_calls' = posts_calls + 1
            /\ all_posts' = <<>>
            /\ posts_page_num' = 1
            /\ posts_per_page' = POSTS_PER_PAGE
            /\ UNCHANGED <<idx, files, folders>>
       ELSE /\ pc' = "dl_media"
            /\ idx' = 1
            /\ \E fs \in FilesAtStart :
                  files' = fs /\ folders' = {f.folder : f \in fs}
            /\ UNCHANGED <<posts_calls, all_posts, posts_page_num, posts_per_page>>
    /\ UNCHANGED <<argc, r_status, resp_status, post_images, sink_calls,
                   dl_outcome, media_calls>>

\* requests.get(POSTS_API, params={"page": page_num, "per_page": per_page})
PostsRequest ==
    /\ pc = "posts"
    /\ pc' = "posts_wait"
    /\ UNCHANGED <<argc, mediaLocals, postsLocals, mainLocals, calls>>

\* the call raises: log, break
PostsException ==
    /\ pc = "posts_wait"
    /\ resp_status' = "exception"
    /\ pc' = "posts_done"
    /\ UNCHANGED <<argc, mediaLocals, all_posts, posts_page_num, posts_per_page,
                   mainLocals, calls>>

\* Posts400 that handles the 400 as fetch_all_media_items does: a smaller
\* per_page and the same page again
Posts400Shrink ==
    /\ pc = "posts_wait"
    /\ resp_status' = "400"
    /\ IF posts_per_page > MIN_PER_PAGE
       THEN /\ posts_per_page' = Shrink(posts_per_page)
            /\ pc' = "posts"
       ELSE /\ posts_per_page' = posts_per_page
            /\ pc' = "posts_done"
    /\ UNCHANGED <<argc, mediaLocals, all_posts, posts_page_num, mainLocals, calls>>

\* resp.status_code == 400: log, break
Posts400 ==
    /\ pc = "posts_wait"
    /\ resp_status' = "400"
    /\ pc' = "posts_done"
    /\ UNCHANGED <<argc, mediaLocals, all_posts, posts_page_num, posts_per_page,
                   mainLocals, calls>>

\* resp.status_code == 200
Posts200 ==
    /\ pc = "posts_wait"
    /\ resp_status' = "200"
    /\ \E body \in PostsBodies :
         IF body.kind = "notjson"
         THEN \* resp.json() raises
              /\ pc' = "crashed_posts"
              /\ UNCHANGED <<all_posts, posts_page_num>>
         ELSE IF body.items = <<>>
         THEN \* if not data: break
              /\ pc' = "posts_done"
              /\ UNCHANGED <<all_posts, posts_page_num>>
         ELSE /\ posts_page_num <= MaxPostsPages
              /\ all_posts' = all_posts \o body.items
              /\ posts_page_num' = posts_page_num + 1
              /\ pc' = "posts"
    /\ UNCHANGED <<argc, mediaLocals, posts_per_page, mainLocals, calls>>

\* any other status: log, break
PostsOther ==
    /\ pc = "posts_wait"
    /\ \E s \in OtherStatuses : resp_status' = s
    /\ pc' = "posts_done"
    /\ UNCHANGED <<argc, mediaLocals, all_posts, posts_page_num, posts_per_page,
                   mainLocals, calls>>

\* fetch_all_posts returns all_posts; post_images = parse_images_from_posts(posts)
ParsePosts ==
    /\ pc = "posts_done"
    /\ all_posts' = <<>>
    /\ posts_page_num' = 0
    /\ posts_per_page' = 0
    /\ IF ParseRaises(all_posts)
       THEN pc' = "crashed_parse" /\ UNCHANGED <<post_images, idx, files, folders>>
       ELSE /\ post_images' = ParseImages(all_posts)
            /\ idx' = 1
            /\ \E fs \in FilesAtStart :
                  files' = fs /\ folders' = {f.folder : f \in fs}
            /\ pc' = "dl_posts"
    /\ r_status' = "none"
    /\ resp_status' = "none"
    /\ UNCHANGED <<argc, all_items, all_seen_ids, page_num, per_page, page_kind,
                   bad_requests, recv_order, media_items, sink_calls,
                   dl_outcome, calls>>

\* for img_url, post_date in post_images: download_file(img_url, post_date)
DownloadPost ==
    /\ pc = "dl_posts"
    /\ idx <= Len(post_images)
    /\ sink_calls' = Append(sink_calls, post_images[idx])
    /\ \E ev \in DownloadEvents :
          LET img == post_images[idx]
              res == DownloadFile(files, folders, img.url, img.date, ev)
          IN  /\ files' = res.files
              /\ folders' = res.folders
              /\ dl_outcome' = res.outcome
              /\ IF res.raised
                 THEN pc' = "crashed_download" /\ idx' = idx
                 ELSE pc' = pc /\ idx' = idx + 1
    /\ UNCHANGED <<argc, mediaLocals, postsLocals, media_items, post_images,
                   calls>>

\* for item in media_items: download_file(source_url, date_str) if the item
\* has a source_url
DownloadMedia ==
    /\ pc = "dl_media"
    /\ idx <= Len(media_items)
    /\ LET item == media_items[idx]
           source_url == item.source_url
           date_str == Or(item.date, EmptyStr)
       IN  IF source_url # NoUrl
           THEN /\ sink_calls' = Append(sink_calls, [url |-> source_url, date |-> date_str])
                /\ \E ev \in DownloadEvents :
                      LET res == DownloadFile(files, folders, source_url, date_str, ev)
                      IN  /\ files' = res.files
                          /\ folders' = res.folders
                          /\ dl_outcome' = res.outcome
                          /\ IF res.raised
                             THEN pc' = "crashed_download" /\ idx' = idx
                             ELSE pc' = pc /\ idx' = idx + 1
           ELSE /\ idx' = idx + 1
                /\ UNCHANGED <<pc, sink_calls, dl_outcome, files, folders>>
    /\ UNCHANGED <<argc, mediaLocals, postsLocals, media_items, post_images,
                   calls>>

\* the download loop is exhausted: main returns
MainReturn ==
    /\ \/ pc = "dl_posts" /\ idx > Len(post_images)
       \/ pc = "dl_media" /\ idx > Len(media_items)
    /\ pc' = "done"
    /\ UNCHANGED <<argc, mediaLocals, postsLocals, mainLocals, calls>>

Next ==
    \/ UsageCheck
    \/ MainStart
    \/ MediaRequest
    \/ MediaException
    \/ Media400
    \/ Media200
    \/ MediaOther
    \/ MainBranch
    \/ PostsRequest
    \/ PostsException
    \/ Posts400
    \/ Posts200
    \/ PostsOther
    \/ ParsePosts
    \/ DownloadPost
    \/ DownloadMedia
    \/ MainReturn

Spec == Init /\ [][Next]_vars

\* requests.get has a timeout, so every call returns or raises, and the
\* process keeps running while it has a step to take
FairSpec == Spec /\ WF_vars(Next)

\* ------------------------------------------------------------------
\* The download loops on a wider range of items
\* ------------------------------------------------------------------
\* days of the calendar (year, month, day)
CalendarDays == {<<2024, 1, 15>>, <<2024, 2, 29>>, <<2023, 12, 31>>}

\* what may follow the date in an ISO-8601 timestamp: nothing,
\* Thh:mm:ss, Thh:mm:ssZ, Thh:mm:ss+hh:mm
IsoSuffixes ==
    {<<>>,
     <<Chr("T", 1)>> \o IsoTime(10, 12, 30),
     <<Chr("T", 1)>> \o IsoTime(23, 59, 59) \o <<Chr("Z", 1)>>,
     <<Chr("T", 1)>> \o IsoTime(8, 0, 0)
        \o <<Chr("+", 1), Num(2, 2), Chr(":", 1), Num(0, 2)>>}

\* date fields that are ISO-8601 timestamps
IsoTimestamps ==
    {IsoDate(d[1], d[2], d[3]) \o sfx : d \in CalendarDays, sfx \in IsoSuffixes}

\* date fields that are strings but no ISO-8601 timestamps: "", "not-a-date",
\* "unknown-date", a month 13, a 29th of February in 2023, a month of one
\* digit, an hour 25, and timestamps with a stray Z in front or within
NotIsoStrings ==
    {EmptyStr,
     <<Chr("not", 3), Chr("-", 1), Chr("a", 1), Chr("-", 1), Chr("date", 4)>>,
     UNKNOWN_DATE,
     IsoDate(2024, 13, 1),
     IsoDate(2023, 2, 29),
     <<Num(2024, 4), Chr("-", 1), Num(1, 1), Chr("-", 1), Num(15, 2)>>,
     IsoDate(2024, 1, 15) \o <<Chr("T", 1)>> \o IsoTime(25, 0, 0),
     <<Chr("Z", 1)>> \o IsoDate(2024, 1, 15),
     <<Chr("Z", 1)>> \o IsoDateTime(2024, 1, 15, 10, 12, 30),
     <<Num(2024, 4), Chr("-", 1), Chr("Z", 1), Num(1, 2), Chr("-", 1), Num(15, 2)>>}

\* the date field of an item or a post: a string, or absent
DateInputs == IsoTimestamps \cup NotIsoStrings \cup {None}

\* URLs whose path ends in a file name, in a slash, and in a name with a
\* colon
TrailingSlashUrl == <<"https:", "/", "/", "cdn.test", "/">>
ColonNameUrl == <<"https:", "/", "/", "cdn.test", "/", "a:b.png">>
SinkUrls == {AbsoluteSrc, TrailingSlashUrl, ColonNameUrl}

\* main at the start of a download loop: fetch_all_media_items has returned
\* one item, or two items with the same source_url and date, and the loop
\* over media_items starts; or it has returned nothing, fetch_all_posts has
\* returned one post with one img tag or with the same src in two tags, and
\* the loop over post_images starts
SinkInit ==
    /\ argc = 2
    /\ all_items = <<>>
    /\ all_seen_ids = {}
    /\ page_num = 0
    /\ per_page = 0
    /\ resp_status = "none"
    /\ page_kind = "none"
    /\ bad_requests = 0
    /\ recv_order = <<>>
    /\ all_posts = <<>>
    /\ posts_page_num = 0
    /\ posts_per_page = 0
    /\ idx = 1
    /\ sink_calls = <<>>
    /\ dl_outcome = "none"
    /\ media_calls = 1
    /\ \E fs \in FilesAtStart : files = fs /\ folders = {f.folder : f \in fs}
    /\ \E u \in SinkUrls, d \in DateInputs, n \in 1..2 :
          \/ /\ pc = "dl_media"
             /\ media_items = [i \in 1..n |-> [id |-> i, source_url |-> u, date |-> d]]
             /\ post_images = <<>>
             /\ r_status = "200"
             /\ posts_calls = 0
          \/ /\ pc = "dl_posts"
             /\ media_items = <<>>
             /\ post_images = ParseImages(<<[isdict |-> TRUE, id |-> 1, date |-> d,
                                             content |-> [i \in 1..n |-> u]]>>)
             /\ r_status = "none"
             /\ posts_calls = 1

SinkNext ==
    \/ DownloadPost
    \/ DownloadMedia
    \/ MainReturn

SinkSpec == SinkInit /\ [][SinkNext]_vars

\* ------------------------------------------------------------------
\* Properties
\* ------------------------------------------------------------------
MediaPcs == {"media", "media_wait", "media_done"}
PostsPcs == {"posts", "posts_wait", "posts_done"}
Crashed == pc \in {"crashed_media", "crashed_posts", "crashed_parse"}

\* once fetch_all_media_items has returned or raised, it is not running again
MediaRunIsOver ==
    [][pc \notin {"usage", "main", "media", "media_wait"}
          => pc' \notin {"media", "media_wait"}]_vars

\* C1: the ids of the items fetch_all_media_items has emitted are pairwise
\* distinct at every point of the run (in all_items while it runs, in
\* media_items once it has returned)
Distinct(items) ==
    \A i, j \in 1..Len(items) : i # j => items[i].id # items[j].id
C1_NoDuplicateIds == Distinct(all_items) /\ Distinct(media_items)

\* a page of ids that were all seen before has been received after two
\* different ids were emitted
C1_Witness ==
    /\ pc = "media_done"
    /\ page_kind = "stale"
    /\ Len(all_items) = 2

\* C2: fetch_all_media_items terminates whatever the server answers: a
\* running loop always ends (by a break, or by an exception that leaves
\* it), and every response it handles ends the loop, advances page_num
\* with a new id seen, or makes per_page smaller without going below
\* MIN_PER_PAGE
C2_EveryBranchProgresses ==
    [][pc = "media_wait" =>
          \/ pc' \in {"media_done", "crashed_media"}
          \/ /\ page_num' = page_num + 1
             /\ Cardinality(all_seen_ids') > Cardinality(all_seen_ids)
             /\ per_page' = per_page
          \/ /\ per_page' < per_page
             /\ per_page' >= MIN_PER_PAGE
             /\ page_num' = page_num]_vars
C2_MediaTerminates ==
    /\ (pc \in {"media", "media_wait"}) ~> (pc \in {"media_done", "crashed_media"})
    /\ C2_EveryBranchProgresses

\* the loop has ended at the floor after 400 responses and a successful page
C2_Witness ==
    /\ pc = "media_done"
    /\ r_status = "400"
    /\ per_page = MIN_PER_PAGE
    /\ page_num > 1

\* C3: after a 400 at per_page p > 1 the next request uses
\* max(1, floor(p / 2)), which is at most half of p; per_page never grows
\* between the requests of one call; no request uses a per_page below 1
C3_ShrinkMonotone ==
    /\ [][pc = "media_wait" /\ r_status' = "400" /\ per_page > 1 =>
             /\ pc' = "media"
             /\ per_page' = (IF per_page \div 2 < 1 THEN 1 ELSE per_page \div 2)
             /\ 2 * per_page' <= per_page]_vars
    /\ [][(pc \in {"media", "media_wait"} /\ pc' \in MediaPcs)
             => (per_page' <= per_page)]_vars
    /\ [](pc \in {"media", "media_wait"} => per_page >= 1)

\* the request about to be made uses 12, reached by floor division from 25,
\* after a page that was handled successfully
C3_Witness ==
    /\ pc = "media"
    /\ r_status = "400"
    /\ per_page = 12
    /\ page_num > 1

\* C4: a 400 at per_page > 1 changes per_page alone and the same page is
\* requested again; a 400 at per_page 1 ends the loop, and no request
\* follows
C4_Handle400 ==
    /\ [][pc = "media_wait" /\ r_status' = "400" =>
             IF per_page > 1
             THEN /\ pc' = "media"
                  /\ page_num' = page_num
                  /\ all_seen_ids' = all_seen_ids
                  /\ all_items' = all_items
                  /\ per_page' # per_page
             ELSE /\ pc' = "media_done"
                  /\ UNCHANGED <<page_num, per_page, all_seen_ids, all_items>>]_vars
    /\ MediaRunIsOver

\* page 2 was answered by 400 down to the floor, and the loop ended on page 2
C4_Witness ==
    /\ pc = "media_done"
    /\ r_status = "400"
    /\ per_page = 1
    /\ page_num = 2
    /\ Len(all_items) = 1

\* C5: a 200 whose batch is empty, or not empty with every id seen before,
\* ends the loop at once: page_num is not advanced, nothing is emitted and
\* no request follows
C5_StopOnStagnation ==
    /\ [][/\ pc = "media_wait"
          /\ r_status' = "200"
          /\ pc' # "crashed_media"
          /\ page_kind' \in {"stale", "empty"}
          => /\ pc' = "media_done"
             /\ page_num' = page_num
             /\ all_items' = all_items
             /\ all_seen_ids' = all_seen_ids]_vars
    /\ MediaRunIsOver

\* page 3 held only ids seen before and ended the loop
C5_Witness ==
    /\ pc = "media_done"
    /\ r_status = "200"
    /\ page_kind = "stale"
    /\ page_num = 3

\* fetch_all_media_items has returned to main
PrimaryReturned ==
    pc \in PostsPcs \cup {"dl_posts", "dl_media", "done", "crashed_posts", "crashed_parse"}

\* once fetch_all_posts has returned or raised, it is not running again
PostsRunIsOver ==
    [][(pc \in {"posts_done", "dl_posts", "done", "crashed_posts", "crashed_parse"})
          => pc' \notin {"posts", "posts_wait"}]_vars

\* C6: main calls fetch_all_posts if and only if fetch_all_media_items
\* returned an empty list; it calls it once, never calls
\* fetch_all_media_items again, and makes no posts request when the media
\* list was not empty
C6_FallbackTrigger ==
    /\ [](media_calls <= 1 /\ posts_calls <= 1)
    /\ [](PrimaryReturned => (posts_calls = 1 <=> media_items = <<>>))
    /\ [](~PrimaryReturned => posts_calls = 0)
    /\ [](pc \in PostsPcs => posts_calls = 1 /\ media_items = <<>>)
    /\ [][posts_calls' # posts_calls
             => (pc = "media_done" /\ all_items = <<>> /\ pc' = "posts")]_vars
    /\ [][posts_calls = 1
             => (media_calls' = media_calls /\ pc' \notin {"main"} \cup MediaPcs)]_vars

\* the fallback ran once and main finished with downloads from the posts
C6_Witness ==
    /\ pc = "done"
    /\ posts_calls = 1
    /\ media_calls = 1
    /\ media_items = <<>>
    /\ sink_calls # <<>>

\* the media loop has ended without having emitted an item
ZeroItemEnd == pc = "media_done" /\ all_items = <<>>

\* C7: each way the media loop ends without an item (exception on the
\* request, a status that is neither 200 nor 400, 400 at per_page 1, an
\* empty page) leads to "media_done", and from there main goes on to
\* fetch_all_posts
C7_FallbackWhenUnavailable ==
    /\ [][/\ pc = "media_wait"
          /\ all_items = <<>>
          /\ \/ r_status' \in {"exception"} \cup OtherStatuses
             \/ r_status' = "400" /\ per_page = 1
             \/ r_status' = "200" /\ page_kind' = "empty"
          => (pc' = "media_done" /\ all_items' = <<>>)]_vars
    /\ [][ZeroItemEnd => (pc' = "posts" /\ posts_calls' = posts_calls + 1)]_vars
    /\ [](ZeroItemEnd => ENABLED MainBranch)

\* the media endpoint answered 400 down to per_page 1, and the posts
\* request is in flight
C7_Witness ==
    /\ pc = "posts_wait"
    /\ r_status = "400"
    /\ media_items = <<>>
    /\ posts_calls = 1

\* ids of the posts collected so far
PostIds(ps) == {ps[i].id : i \in {k \in 1..Len(ps) : ps[k].isdict}}

\* C8: fetch_all_posts stops without a further request when a page that is
\* not empty holds only ids that earlier pages returned
C8_PostsStopOnStalePage ==
    [][/\ pc = "posts_wait"
       /\ resp_status' = "200"
       /\ Len(all_posts') > Len(all_posts)
       /\ \A i \in (Len(all_posts) + 1)..Len(all_posts') :
             /\ all_posts'[i].isdict
             /\ all_posts'[i].id # NoId
             /\ all_posts'[i].id \in PostIds(all_posts)
       => pc' = "posts_done"]_vars

\* C9: an exception on the request, or a status that is neither 200 nor
\* 400, ends the loop at once with what has been collected; the loop is
\* not entered again; main receives the items collected before the failure
\* and carries on
C9_FailureEndsTheRun ==
    /\ [][pc = "media_wait" /\ r_status' \in {"exception"} \cup OtherStatuses
             => /\ pc' = "media_done"
                /\ UNCHANGED <<all_items, all_seen_ids, page_num, per_page>>]_vars
    /\ [][pc = "posts_wait" /\ resp_status' \in {"exception"} \cup OtherStatuses
             => /\ pc' = "posts_done"
                /\ UNCHANGED <<all_posts, posts_page_num, posts_per_page>>]_vars
    /\ [][pc = "media_done"
             => (media_items' = all_items /\ pc' \in {"posts", "dl_media"})]_vars
    /\ [](pc = "media_done" => ENABLED MainBranch)
    /\ [](pc = "posts_done" => ENABLED ParsePosts)
    /\ MediaRunIsOver
    /\ PostsRunIsOver

\* the request for a later page raised, and main is downloading the items
\* of the pages before it
C9_Witness ==
    /\ pc = "dl_media"
    /\ r_status = "exception"
    /\ Len(media_items) = 2
    /\ idx = 2

\* C10: with the site URL given, no run ends in an exception that nothing
\* catches
C10_NoFatalPath == argc >= 2 => ~Crashed

\* the calls of download_file that the primary loop makes for one item
CallsOfItem(item) ==
    IF item.source_url = NoUrl THEN <<>>
    ELSE <<[url |-> item.source_url,
            date |-> IF item.date = None THEN EmptyStr ELSE item.date]>>

\* C11: a download that fails (a status other than 200, an exception inside
\* download_file) does not end the batch: in both loops a step either makes
\* the call of the current item and moves to the next item, whatever the
\* outcome of the call, or finds the list exhausted and returns
C11_FailedDownloadDoesNotAbort ==
    [][(pc \in {"dl_media", "dl_posts"}) =>
          /\ pc' \in {pc, "done"}
          /\ (pc' = "done") =>
                /\ sink_calls' = sink_calls
                /\ idx = 1 + (IF pc = "dl_media" THEN Len(media_items)
                              ELSE Len(post_images))
          /\ (pc' = pc) =>
                /\ idx' = idx + 1
                /\ dl_outcome' \in DownloadOutcomes \cup {"none"}
                /\ sink_calls' = sink_calls \o
                      (IF pc = "dl_media" THEN CallsOfItem(media_items[idx])
                       ELSE <<post_images[idx]>>)]_vars

\* the first of two calls stored nothing and found nothing (it failed), the
\* second call was made all the same and stored its file
C11_Witness ==
    /\ pc = "done"
    /\ Len(sink_calls) = 2
    /\ dl_outcome = "ok"
    /\ Cardinality(files) = 1
    /\ ~Exists(files, get_date_subfolder(sink_calls[1].date),
               FileNameOf(sink_calls[1].url))

\* the items among the first k of media_items that have a source_url
WithLocator(k) ==
    SelectSeq(SubSeq(media_items, 1, k), LAMBDA item : item.source_url # NoUrl)

\* C12: in the primary path download_file is called once for every item of
\* media_items that has a source_url, in the order of the list, with the
\* item's own source_url and its own date (the empty string for an absent
\* date), and not for an item without a source_url; at the end the calls
\* are as many as the items with a source_url
C12_PrimaryCalls ==
    (pc = "dl_media" \/ (pc = "done" /\ media_items # <<>>)) =>
        LET served == WithLocator(idx - 1)
        IN  /\ pc = "done" => idx = Len(media_items) + 1
            /\ Len(sink_calls) = Len(served)
            /\ \A j \in 1..Len(served) :
                  /\ sink_calls[j].url = served[j].source_url
                  /\ sink_calls[j].date =
                        (IF served[j].date = None THEN EmptyStr ELSE served[j].date)

\* two pages and an empty page gave three distinct items, one of them without
\* a source_url and one without a date: two calls, one with the date ""
C12_Witness ==
    /\ pc = "done"
    /\ Len(media_items) = 3
    /\ Len(sink_calls) = 2
    /\ \E i \in 1..3 : media_items[i].source_url = NoUrl
    /\ \E j \in 1..2 : sink_calls[j].date = EmptyStr
    /\ r_status = "200"

\* the img tags of the first k posts of ps
RECURSIVE ImgCount(_, _)
ImgCount(ps, k) == IF k = 0 THEN 0 ELSE ImgCount(ps, k - 1) + Len(ps[k].content)

\* C13: in the fallback path every call of download_file comes from an img
\* tag of a post that fetch_all_posts returned: the extractor yields one
\* entry for every occurrence of a tag (none is dropped as a repetition),
\* with the date of the post the tag stands in, and the loop makes one call
\* for every entry, in the order of the entries
C13_FallbackCalls ==
    [][/\ (pc = "posts_done" /\ pc' = "dl_posts") =>
             /\ Len(post_images') = ImgCount(all_posts, Len(all_posts))
             /\ \A i \in 1..Len(all_posts) :
                   \A j \in 1..Len(all_posts[i].content) :
                      LET img == post_images'[ImgCount(all_posts, i - 1) + j]
                      IN  /\ img.url = NormalizeSrc(all_posts[i].content[j])
                          /\ img.date = (IF all_posts[i].date \in {None, EmptyStr}
                                         THEN UNKNOWN_DATE ELSE all_posts[i].date)
             /\ sink_calls' = <<>>
       /\ (pc = "dl_posts" /\ pc' = "dl_posts") =>
             /\ post_images' = post_images
             /\ sink_calls' = Append(sink_calls, post_images[idx])
       /\ (pc = "dl_posts" /\ pc' = "done") =>
             /\ sink_calls = post_images
             /\ sink_calls' = sink_calls]_vars

\* the fallback has served two posts of different dates, one of them with
\* the same src in two img tags: two calls alike, and calls of two dates
C13_Witness ==
    /\ pc = "done"
    /\ media_items = <<>>
    /\ \E j \in 1..(Len(sink_calls) - 1) : sink_calls[j] = sink_calls[j + 1]
    /\ \E k \in 1..Len(sink_calls) : sink_calls[k].date # sink_calls[1].date

IsAbsoluteUrl(url) ==
    /\ Len(url) >= 4
    /\ url[1] \in Schemes
    /\ url[2] = "/" /\ url[3] = "/"
    /\ url[4] # "/"

\* C15: every URL that the extractor produces, and so every URL that the
\* fallback path passes to download_file, is an absolute URL, whatever the
\* raw src was
C15_LocatorsAbsolute ==
    /\ \A k \in 1..Len(post_images) : IsAbsoluteUrl(post_images[k].url)
    /\ media_items = <<>> =>
          \A k \in 1..Len(sink_calls) : IsAbsoluteUrl(sink_calls[k].url)

\* the folder the specification names for a date field: the calendar date of an
\* ISO-8601 timestamp, "unknown-date" for every other string and for an
\* absent date
BucketOf(t) == IF t \in IsoTimestamps THEN SubSeq(t, 1, 5) ELSE UNKNOWN_DATE

\* the date field behind the k-th call of download_file
DateOfCall(k) ==
    IF media_items # <<>> THEN media_items[k].date ELSE sink_calls[k].date

\* C16: resolving the date never ends the run with an error: in both loops
\* an item whose date is absent, empty or no ISO-8601 timestamp is stored
\* under unknown-date, an item whose date is an ISO-8601 timestamp under its
\* calendar date, and the call goes on in either case
C16_DateBuckets ==
    /\ pc # "crashed_download"
    /\ \A k \in 1..Len(sink_calls) : BucketOf(DateOfCall(k)) \in folders
    /\ \A f \in files :
          f.content # "old" =>
             \E k \in 1..Len(sink_calls) : f.folder = BucketOf(DateOfCall(k))

\* C17: while fetch_all_media_items runs and when it ends, all_items holds
\* every id that a 200 body has brought, each once and no other, in the
\* order in which the ids first occurred; all_seen_ids is the set of the ids
\* of all_items; and a page with ids seen before and ids not seen before
\* adds the latter and does not end the loop
C17_EmissionComplete ==
    (pc \in {"media", "media_wait", "media_done"}) =>
        /\ [i \in 1..Len(all_items) |-> all_items[i].id] = recv_order
        /\ all_seen_ids = {all_items[i].id : i \in 1..Len(all_items)}
        /\ (pc = "media_done" /\ r_status = "200") => page_kind \in {"stale", "empty"}

\* a page with a seen id and a new id has come, the new id was taken, the
\* loop went on to a further request, and the run has ended with three items
C17_Witness ==
    /\ pc = "media_done"
    /\ page_kind = "mixed"
    /\ r_status = "exception"
    /\ Len(all_items) = 3

\* C18: every request of fetch_all_posts asks for 20 posts a page, the size
\* is never changed, and a response 400 ends the loop at once, with no
\* smaller page size and no retry, the posts collected so far being what
\* the function returns
C18_PostsPageSizeFixed ==
    [][/\ (pc' \in {"posts", "posts_wait"}) => posts_per_page' = 20
       /\ (pc = "posts_wait" /\ resp_status' = "400") =>
             /\ pc' = "posts_done"
             /\ all_posts' = all_posts
             /\ posts_page_num' = posts_page_num
             /\ posts_per_page' = 20]_vars

\* the second request of fetch_all_posts was answered 400: the loop has
\* ended with the post of the first page
C18_Witness ==
    /\ pc = "posts_done"
    /\ resp_status = "400"
    /\ Len(all_posts) = 1
    /\ posts_page_num = 2
    /\ posts_per_page = 20

\* C19: every request of fetch_all_media_items asks for 100, 50, 25, 12, 6,
\* 3 or 1 items a page, and one call of the function receives at most seven
\* responses 400 (six that shrink the page size, one at the page size 1),
\* however they alternate with other responses
C19_PageSizesAndBadRequests ==
    (pc \in {"media", "media_wait", "media_done", "crashed_media"}) =>
        /\ per_page \in {100, 50, 25, 12, 6, 3, 1}
        /\ bad_requests <= 7

\* seven responses 400 have come, with pages of items between them, and the
\* seventh has ended the loop at the page size 1
C19_Witness ==
    /\ pc = "media_done"
    /\ r_status = "400"
    /\ bad_requests = 7
    /\ per_page = 1
    /\ Len(all_items) >= 2

\* C20: download_file skips a file that is there and is idempotent: a call
\* whose path, derived from the URL and the folder of the date, names a file
\* that exists leaves every file as it is; a call changes no file that
\* exists and creates at most the file of its own path; so the second of two
\* successive calls with the same URL and date, made after a first call that
\* stored or found the file, leaves the files as the first call left them
C20_SkipAndIdempotent ==
    [][(pc \in {"dl_media", "dl_posts"} /\ sink_calls' # sink_calls) =>
          LET call == sink_calls'[Len(sink_calls')]
              folder == get_date_subfolder(call.date)
              name == FileNameOf(call.url)
          IN  /\ Exists(files, folder, name) => files' = files
              /\ files \subseteq files'
              /\ \A f \in files' \ files : f.folder = folder /\ f.name = name
              /\ Cardinality(files' \ files) <= 1
              /\ (/\ sink_calls # <<>>
                  /\ sink_calls[Len(sink_calls)] = call
                  /\ dl_outcome \in {"ok", "skip"}) =>
                    (files' = files /\ dl_outcome' # "ok")]_vars

\* the first of two calls with the same URL and date has written the file,
\* the second has found it and skipped: one file, as after the first call
C20_Witness ==
    /\ Len(sink_calls) = 2
    /\ sink_calls[1] = sink_calls[2]
    /\ dl_outcome = "skip"
    /\ files = {[folder |-> get_date_subfolder(sink_calls[1].date),
                 name |-> FileNameOf(sink_calls[1].url), content |-> "new"]}
====
